---- MODULE Spec2Model ----
(***************************************************************************)
(* Model of the cncserver IPC runner (the serial command buffer executor)  *)
(* and of the motion control module (buffered pen vs. actual pen).         *)
(*                                                                         *)
(* Runner: every IPC message handler, the buffer interval and every        *)
(* platform callback (timer, port.write/drain/flush callback) is one       *)
(* atomic action, as node runs each of them to completion.                 *)
(***************************************************************************)
EXTENDS Integers, Sequences, FiniteSets, TLC

\* ---------------------------------------------------------------- bounds
\* Number of buffer.add messages received over a run.
MaxItems == 2
\* Longest command list of a buffer item or direct batch.
MaxCmds == 2
\* Number of serial.direct.command messages received over a run.
MaxDirect == 2
\* Number of serial.direct.write messages received over a run.
MaxRaw == 1
\* Number of buffer.clear messages received over a run.
MaxClears == 1
\* port.write exceptions are injected only while fewer than this were seen.
MaxErrors == 1
\* Number of calls into the motion control module over a run.
MaxOps == 3
\* Largest iterations argument of wigglePen.
MaxIterations == 2
\* Largest travel argument of wigglePen, in steps.
MaxTravel == 1

\* ------------------------------------------------------------ runner state
VARIABLES
    simulation,        \* let simulation
    buffer,            \* let buffer: sequence of [hash, commands]
    bufferRunning,     \* let bufferRunning
    bufferPaused,      \* let bufferPaused
    bufferExecuting,   \* let bufferExecuting
    bufferDirectBusy,  \* let bufferDirectBusy
    itemExec,          \* the executeCommands chain of the running buffer item
    directExec,        \* the executeCommands chain of the direct batch
    rawWrites,         \* in-flight serial.direct.write writes (set of writes)
    flushPending,      \* port.flush callbacks of buffer.clear not yet called
    \* history of what the runner received and emitted
    enqueued,          \* commands of every buffer.add, by hash (= position)
    started,           \* hashes of the buffer.item.start messages, in order
    done,              \* hashes of the buffer.item.done messages, in order
    itemWrites,        \* hash -> commands handed to serial.write, in order
    directs,           \* every serial.direct.command: [commands, overlap]
    directWrites,      \* direct id -> commands handed to serial.write
    directDone,        \* ids of the direct batches whose callback ran
    discarded,         \* hashes removed from the buffer by buffer.clear
    nClears,           \* buffer.clear messages received
    nRaw,              \* serial.direct.write messages received
    errors,            \* serial.error messages sent (type data)
    emitted,           \* the last two buffer.* messages sent to the host
    emptySent,         \* buffer.empty messages sent since the last
                       \* buffer.item.done or buffer.running true (up to 2)
    \* motion control (the host side)
    pen,               \* cncserver.pen.state: the buffered pen (tip of buffer)
    actualPen,         \* cncserver.actualPen.state
    bufferData,        \* cncserver.buffer.data: the items not yet executed
    result,            \* the last call: name, argument, return value, commands sent
    nOps,              \* calls into the control module so far
    hostPaused         \* cncserver.buffer is paused (manual tool swap)

runnerVars ==
    <<simulation, buffer, bufferRunning, bufferPaused, bufferExecuting,
      bufferDirectBusy, itemExec, directExec, rawWrites, flushPending,
      enqueued, started, done, itemWrites, directs, directWrites, directDone,
      discarded, nClears, nRaw, errors, emitted, emptySent>>

ctlVars == <<pen, actualPen, bufferData, result, nOps, hostPaused>>

vars == <<runnerVars, ctlVars>>

\* The value of commands[index] past the end of the array.
Undefined == "undefined"

\* No executeCommands chain.
NoExec ==
    [id |-> 0, commands |-> <<>>, index |-> 0, stage |-> "idle", timeout |-> "none"]

\* The command lists a message can carry: <<1, .., n>> for n in 0..MaxCmds.
CmdLists == { [i \in 1..n |-> i] : n \in 0..MaxCmds }

RangeOf(seq) == { seq[i] : i \in 1..Len(seq) }

\* commands[index], index counted from 0 as in the source.
CmdAtFromEnd(commands, index) ==
    IF index + 1 <= Len(commands) THEN commands[Len(commands) - index] ELSE Undefined

CmdAt(commands, index) ==
    IF index + 1 <= Len(commands) THEN commands[index + 1] ELSE Undefined

\* Commands index .. end, the writes of a chain whose every write throws.
RestFrom(commands, index) ==
    IF index + 1 <= Len(commands)
    THEN SubSeq(commands, index + 1, Len(commands))
    ELSE <<Undefined>>

\* serial.write: the stage its write is in when serial.write returns.
\* Simulation: a 1 ms timer. Real: port.write is pending with the 500 ms
\* write timeout armed.
WriteStage(sim) == IF sim THEN "sim" ELSE "write"

WriteTimeoutOf(sim) == IF sim THEN "none" ELSE "armed"

\* executeCommands(commands, callback, index): the chain after the call
\* returns, the commands it handed to serial.write and the serial.error
\* messages it sent. thr: port.write throws during this call (real mode
\* only); the catch block then calls the callback at once, which recurses
\* to the next command and ends with setTimeout(callback, 0).
executeCommands(id, commands, index, sim, thr) ==
    IF thr /\ ~sim
    THEN [chain |-> [id |-> id, commands |-> commands,
                     index |-> IF Len(commands) = 0 THEN 1 ELSE Len(commands),
                     stage |-> "cb0", timeout |-> "none"],
          wrote |-> RestFrom(commands, index),
          errs  |-> Len(RestFrom(commands, index))]
    ELSE [chain |-> [id |-> id, commands |-> commands, index |-> index,
                     stage |-> WriteStage(sim), timeout |-> WriteTimeoutOf(sim)],
          wrote |-> <<CmdAt(commands, index)>>,
          errs  |-> 0]

\* The callback executeCommands hands to serial.write: index++, then the
\* next command or setTimeout(callback, 0).
WriteCallback(c, sim, thr) ==
    IF c.index + 1 < Len(c.commands)
    THEN executeCommands(c.id, c.commands, c.index + 1, sim, thr)
    ELSE [chain |-> [c EXCEPT !.index = c.index + 1, !.stage = "cb0",
                              !.timeout = "none"],
          wrote |-> <<>>,
          errs  |-> 0]
\* wrapper.sendMessage of a buffer.* message: the host has the message; the
\* model keeps the last two.
Emit(e, message) == IF Len(e) < 2 THEN Append(e, message) ELSE <<e[2], message>>

\* One more buffer.empty message; the model tells none, one and several apart.
OneMore(n) == IF n < 2 THEN n + 1 ELSE n

\* The part of the runner state executeNext reads and writes.
RunnerState ==
    [buffer |-> buffer, bufferRunning |-> bufferRunning,
     bufferPaused |-> bufferPaused, bufferExecuting |-> bufferExecuting,
     itemExec |-> itemExec, started |-> started, done |-> done,
     itemWrites |-> itemWrites, errors |-> errors, emitted |-> emitted,
     emptySent |-> emptySent]

\* Writes a runner state back to the variables.
Commit(s) ==
    /\ buffer' = s.buffer
    /\ bufferRunning' = s.bufferRunning
    /\ bufferPaused' = s.bufferPaused
    /\ bufferExecuting' = s.bufferExecuting
    /\ itemExec' = s.itemExec
    /\ started' = s.started
    /\ done' = s.done
    /\ itemWrites' = s.itemWrites
    /\ errors' = s.errors
    /\ emitted' = s.emitted
    /\ emptySent' = s.emptySent

\* buffer.pop(): the item at the end of the array.
BufferPop(buf) == buf[Len(buf)]

\* buffer.push(data), which buffer.add does not use.
BufferPush(buf, data) == Append(buf, data)

\* buffer.unshift(data): the item goes to the front of the array.
BufferUnshift(buf, data) == <<data>> \o buf

\* executeNext(): returns at once when paused or executing; pops and starts
\* the next item, finishing items without commands on the spot and going on
\* to the next one; reports the empty buffer otherwise.
\* executeNext's first line: if (bufferPaused || bufferExecuting) return;
BlockedExecutingOnly(s) == s.bufferExecuting

BlockedPausedOnly(s) == s.bufferPaused

Blocked(s) == s.bufferPaused \/ s.bufferExecuting

RECURSIVE executeNext(_, _, _)
executeNext(s, sim, thr) ==
    IF Blocked(s) THEN s
    ELSE IF Len(s.buffer) > 0
    THEN LET item == BufferPop(s.buffer)
             s1 == [s EXCEPT !.buffer = SubSeq(s.buffer, 1, Len(s.buffer) - 1),
                             !.started = Append(@, item.hash),
                             !.emitted = Emit(@, "buffer.item.start"),
                             !.bufferExecuting = TRUE]
         IN IF Len(item.commands) > 0
            THEN LET r == executeCommands(item.hash, item.commands, 0, sim, thr)
                 IN [s1 EXCEPT !.itemExec = r.chain,
                               !.itemWrites[item.hash] = @ \o r.wrote,
                               !.errors = @ + r.errs]
            ELSE executeNext([s1 EXCEPT !.done = Append(@, item.hash),
                                        !.emitted = Emit(@, "buffer.item.done"),
                                        !.emptySent = 0,
                                        !.bufferExecuting = FALSE], sim, thr)
    ELSE [s EXCEPT !.bufferRunning = FALSE, !.bufferExecuting = FALSE,
                   !.emitted = Emit(Emit(@, "buffer.empty"), "buffer.running false"),
                   !.emptySent = OneMore(@)]

\* Whether port.write may throw in a handler: real mode only, and only
\* while the model's error budget lasts.
ThrowChoices == IF ~simulation /\ errors < MaxErrors THEN BOOLEAN ELSE {FALSE}

\* --------------------------------------------------------- motion control
\* cncserver.settings.bot.maxArea: 0..AreaW by 0..AreaH steps.
AreaW == 2

AreaH == 1

\* cncserver.settings.bot.workArea: left and top lie inside the maximum
\* area, right and bottom are its far edges.
WorkLeft == 1

WorkTop == 0

workArea == [left |-> WorkLeft, top |-> WorkTop, right |-> AreaW, bottom |-> AreaH]

\* Coordinates arrive as numbers; the model counts them in half steps so
\* that rounding has something to do. The inputs: below zero, zero (for x),
\* every n - 1/2 inside the area, and past the far edge.
XIn2 == {-2, 0} \cup { 2 * k - 1 : k \in 1..AreaW } \cup {2 * AreaW + 2}

YIn2 == {-2} \cup { 2 * k - 1 : k \in 1..AreaH } \cup {2 * AreaH + 2}

Limits == {"none", "workArea"}

\* What a coordinate is: a finite number (then x2, y2 give it in half
\* steps), NaN, Infinity or -Infinity.
FinitePoints ==
    [x2 : XIn2, y2 : YIn2, limit : Limits, xn : {"finite"}, yn : {"finite"}]

NonFinitePoints ==
    { [x2 |-> 0, y2 |-> 1, limit |-> l, xn |-> n, yn |-> "finite"] :
        l \in Limits, n \in {"NaN", "Infinity"} }
    \cup { [x2 |-> 1, y2 |-> 0, limit |-> "none", xn |-> "finite", yn |-> "NaN"],
           [x2 |-> 0, y2 |-> 1, limit |-> "workArea", xn |-> "-Infinity",
            yn |-> "finite"] }

InPoints == FinitePoints \cup NonFinitePoints

\* Number.isNaN(v)
NumberIsNaN(n) == n = "NaN"

\* movePenAbs, line 506: the test that rejects the point.
Rejects(inPoint) == NumberIsNaN(inPoint.xn) \/ NumberIsNaN(inPoint.yn)

\* Number(v) in half steps. Infinity lies beyond every edge the code
\* compares it with and every clamp brings it onto the edge, so it stands
\* here as a value past the far edge (-Infinity: below zero).
NumberOf(n, v2) ==
    IF n = "Infinity" THEN 2 * (AreaW + AreaH + 1)
    ELSE IF n = "-Infinity" THEN -2
    ELSE v2

\* The pen height states used here and their servo heights
\* (cncserver.utils.stateToHeight).
PenStates == {"up", "draw"}

stateToHeight(state) ==
    [state |-> state,
     height |-> IF state = "up" THEN 1 ELSE IF state = "wash" THEN 2 ELSE 0]

\* cncserver.utils.penDown(): the buffered pen's state is a down state.
penDown(p) == p.state # "up"

\* cncserver.settings.bot.inWorkArea(point)
inWorkArea(point) ==
    /\ point.x >= workArea.left /\ point.x <= workArea.right
    /\ point.y >= workArea.top /\ point.y <= workArea.bottom

\* Math.round(Number(v)) of a value given in half steps: halves go up.
MathRound(v2) == (v2 + 1) \div 2

\* cncserver.utils.getVectorLength(change), in whole steps (rounded down).
getVectorLength(change) ==
    LET n == change.x * change.x + change.y * change.y
    IN CHOOSE r \in 0..(AreaW + AreaH + 1) : r * r <= n /\ (r + 1) * (r + 1) > n

\* cncserver.utils.sanityCheckAbsoluteCoord(point): into the maximum area.
sanityCheckAbsoluteCoord(point) ==
    [point EXCEPT !.x = IF @ > AreaW THEN AreaW ELSE IF @ < 0 THEN 0 ELSE @,
                  !.y = IF @ > AreaH THEN AreaH ELSE IF @ < 0 THEN 0 ELSE @]

PenInit ==
    [x |-> 0, y |-> 0, state |-> "up", height |-> stateToHeight("up").height,
     offCanvas |-> FALSE, distanceCounter |-> 0]

\* The controller state the operations below read and write.
\* sent counts the direct commands sent, calls the calls of movePenAbs.
CtlState ==
    [pen |-> pen, actualPen |-> actualPen, data |-> bufferData, sent |-> 0,
     calls |-> 0, paused |-> hostPaused]

\* A local value computed once: F applied to the value of v.
With(v, F(_)) == CHOOSE r \in { F(x) : x \in {v} } : TRUE

\* cncserver.run(type, data, duration): the item joins the buffer with the
\* buffered pen as it is then.
run(c, type, arg) ==
    [c EXCEPT !.data = Append(@, [type |-> type, arg |-> arg, pen |-> c.pen])]

\* control.actuallyMoveHeight(height, stateValue, cb)
actuallyMoveHeight(c, height, stateValue) ==
    [c EXCEPT !.actualPen.state = stateValue,
              !.actualPen.height = height,
              !.sent = @ + 1]

\* cncserver.pen.resetState(): the buffered pen becomes the actual pen.
resetState(c) == [c EXCEPT !.pen = c.actualPen]

\* actuallyMove: if (cncserver.buffer.data.length === 0)
Resync(c) == Len(c.data) = 0

\* control.actuallyMove(destination, callback)
actuallyMove(c, destination) ==
    With([c EXCEPT !.actualPen.x = destination.x,
                   !.actualPen.y = destination.y,
                   !.sent = @ + 1],
         LAMBDA c1 : IF Resync(c1) THEN resetState(c1) ELSE c1)

\* cncserver.pen.setHeight(state) through the buffer: the tip of the buffer
\* takes the state and its height, and the height change is queued.
setHeight(c, state) ==
    With([c EXCEPT !.pen.state = state,
                   !.pen.height = stateToHeight(state).height],
         LAMBDA c1 : run(c1, "height", stateToHeight(state)))

\* offCanvasChange, line 681: const { state: back } = cncserver.pen.state
BackStateUp(c) == "up"

BackState(c) == c.pen.state

\* control.offCanvasChange(newValue)
offCanvasChange(c, newValue) ==
    IF c.pen.offCanvas = newValue THEN c
    ELSE With([c EXCEPT !.pen.offCanvas = newValue], LAMBDA c1 :
           IF c1.pen.offCanvas
           THEN IF penDown(c1.pen) THEN run(c1, "callback", "raise") ELSE c1
           ELSE With([c1 EXCEPT !.pen.state = "up",
                                !.pen.height = stateToHeight("up").height],
                     LAMBDA c2 : setHeight(c2, BackState(c1))))

\* movePenAbs, lines 517-518: the point rounded to whole steps.
RoundedPoint(inPoint) ==
    [x |-> MathRound(NumberOf(inPoint.xn, inPoint.x2)),
     y |-> MathRound(NumberOf(inPoint.yn, inPoint.y2))]

\* movePenAbs, lines 525-546: the point moved onto the edge of the work
\* area it lies beyond.
ClampToWorkArea(p) ==
    [x |-> IF p.x > workArea.right THEN workArea.right
           ELSE IF p.x < workArea.left THEN workArea.left ELSE p.x,
     y |-> IF p.y < workArea.top THEN workArea.top
           ELSE IF p.y > workArea.bottom THEN workArea.bottom ELSE p.y]

\* movePenAbs, lines 517-546: the rounded point, clamped when point.limit is
\* 'workArea', and startOffCanvasChange (whether any clamp applied).
LimitedPoint(inPoint) ==
    With(RoundedPoint(inPoint), LAMBDA p0 :
      IF inPoint.limit = "workArea"
      THEN With(ClampToWorkArea(p0), LAMBDA p1 :
             [point |-> p1, startOffCanvasChange |-> p1 # p0])
      ELSE [point |-> p0, startOffCanvasChange |-> FALSE])

\* movePenAbs, lines 598-601: the tip of the buffer moves to the point.
AdvancePenNot(c, point) == c

AdvancePen(c, point) == [c EXCEPT !.pen.x = point.x, !.pen.y = point.y]

\* movePenAbs, lines 605-607: whether the move's distance is counted.
CountsAlways(c, point) == TRUE

Counts(c, point) == penDown(c.pen) /\ ~c.pen.offCanvas /\ inWorkArea(point)

\* movePenAbs, lines 596-625: the move is buffered.
QueueMove(c, point, distance) ==
    With(AdvancePen(c, point), LAMBDA c2 :
    With(IF Counts(c2, point)
         THEN [c2 EXCEPT !.pen.distanceCounter = distance + @]
         ELSE c2, LAMBDA c3 :
      run(c3, "move", [x |-> c3.pen.x, y |-> c3.pen.y])))

\* movePenAbs, lines 579-582: if (change.x === 0 && change.y === 0)
NoChangeNever(change) == FALSE

NoChange(change) == change.x = 0 /\ change.y = 0

\* movePenAbs, lines 523 and 549-557: the limit is the work area and no
\* clamp set startOffCanvasChange, so offCanvasChange(false) is called.
EntryEventNever(inPoint, lim) == FALSE

EntryEvent(inPoint, lim) == inPoint.limit = "workArea" /\ ~lim.startOffCanvasChange

\* movePenAbs past the isNaN test (lines 513-654). cb is what became of the
\* callback: "state" when it was called with the buffered pen before the
\* return, "move" when it was handed to actuallyMove, "timing" when lines
\* 632-651 call it at once or by a timer (immediate, duration).
MoveValid(c, inPoint, skip) ==
    With(LimitedPoint(inPoint), LAMBDA lim :
    With(IF EntryEvent(inPoint, lim)
         THEN offCanvasChange(c, FALSE)
         ELSE c, LAMBDA c1 :
    With(sanityCheckAbsoluteCoord(lim.point), LAMBDA point :
    With([x |-> point.x - c1.pen.x, y |-> point.y - c1.pen.y], LAMBDA change :
    With(getVectorLength(change), LAMBDA distance :
      IF skip THEN [c |-> actuallyMove(c1, point), ret |-> 0, cb |-> "move"]
      ELSE IF NoChange(change)
      THEN [c |-> c1, ret |-> 0, cb |-> "state"]
      ELSE With(IF distance # 0 THEN QueueMove(c1, point, distance) ELSE c1,
                LAMBDA c4 :
             [c |-> IF lim.startOffCanvasChange
                    THEN offCanvasChange(c4, TRUE)
                    ELSE c4,
              ret |-> distance,
              cb |-> "timing"]))))))

\* control.movePenAbs(inPoint, callback, immediate, skip): the controller
\* state when it returns, its return value and what became of the callback
\* ("false": called with false). calls counts the calls of movePenAbs.
movePenAbs(c, inPoint, skip) ==
    With([c EXCEPT !.calls = @ + 1], LAMBDA c0 :
      IF Rejects(inPoint)
      THEN [c |-> c0, ret |-> 0, cb |-> "false"]
      ELSE MoveValid(c0, inPoint, skip))

\* An item of cncserver.buffer.data starts executing: the actual pen takes
\* the buffered pen the item was queued with; a queued callback then runs.
\* The off canvas callback raises the pen directly and sets the buffered
\* height (lines 673-677); the manual swap callback of setTool pauses the
\* buffer (lines 448-458).
startItem(c) ==
    With(Head(c.data), LAMBDA item :
    With([c EXCEPT !.data = Tail(@), !.actualPen = item.pen], LAMBDA c1 :
      IF item.type = "callback" /\ item.arg = "raise"
      THEN With(actuallyMoveHeight(c1, stateToHeight("up").height, "up"),
                LAMBDA c2 : [c2 EXCEPT !.pen.height = stateToHeight("up").height])
      ELSE IF item.type = "callback" /\ item.arg = "pause"
      THEN [c1 EXCEPT !.paused = TRUE]
      ELSE c1))

\* ------------------------------------------------------- tool changes
\* Strings are sequences of characters here.
\* String.prototype.split('|')
RECURSIVE Split(_)
Split(s) ==
    IF \A i \in 1..Len(s) : s[i] # "|"
    THEN <<s>>
    ELSE LET i == CHOOSE k \in 1..Len(s) :
                      s[k] = "|" /\ \A j \in 1..(k - 1) : s[j] # "|"
         IN <<SubSeq(s, 1, i - 1)>> \o Split(SubSeq(s, i + 1, Len(s)))

\* `${undefined}` in a template literal.
StrUndefined == <<"u", "n", "d", "e", "f", "i", "n", "e", "d">>

\* setTool, line 418: const [currentToolName, vIndex] = toolNameData[1];
\* the first character of the second element of the split, as a string.
CurrentToolName(toolNameData) ==
    IF Len(toolNameData[2]) >= 1 THEN <<toolNameData[2][1]>> ELSE StrUndefined

\* currentToolName.indexOf('water') !== -1
ContainsWater(name) ==
    \E i \in 1..(Len(name) - 4) : SubSeq(name, i, i + 4) = <<"w", "a", "t", "e", "r">>

\* The tools of the bot configuration (cncserver.settings.botConf, tools:*):
\* a water dish and a colour that are changed automatically, a tool that
\* waits for the user, and a tool with wait set to false.
Tools ==
    (<<"w", "a", "t", "e", "r", "0">> :>
        [x |-> 1, y |-> 0, wait |-> "undefined",
         wiggleAxis |-> "y", wiggleTravel |-> 1, wiggleIterations |-> 1])
    @@ (<<"c">> :>
        [x |-> 2, y |-> 1, wait |-> "undefined",
         wiggleAxis |-> "xy", wiggleTravel |-> 1, wiggleIterations |-> 2])
    @@ (<<"m">> :>
        [x |-> 1, y |-> 1, wait |-> "true",
         wiggleAxis |-> "y", wiggleTravel |-> 1, wiggleIterations |-> 1])
    @@ (<<"f">> :>
        [x |-> 1, y |-> 0, wait |-> "false",
         wiggleAxis |-> "y", wiggleTravel |-> 1, wiggleIterations |-> 1])

\* The tool names setTool is called with.
ToolNames ==
    { <<"c">>, <<"x">>, <<"x", "|", "2">>, <<"m", "|", "2">>,
      <<"2", "|", "m">>, <<"2", "|", "c">>, <<"2", "|", "f">>,
      <<"w", "a", "t", "e", "r", "0", "|", "1">> }

\* A point with finite coordinates given in half steps and no limit.
PointAt(x2, y2) ==
    [x2 |-> x2, y2 |-> y2, limit |-> "none", xn |-> "finite", yn |-> "finite"]

\* wigglePen's _wiggleSlave, lines 819-840: the point of half-cycle i, in
\* half steps (travel / 2 is half of travel steps).
WigglePoint(start, axis, travel, i, toggle) ==
    IF axis = "xy"
    THEN LET back == (i % 4) % 3 # 0
             x2 == 2 * start.x
                     + (IF back /\ ~toggle THEN -2 * travel ELSE 0)
                     + (IF ~toggle THEN 2 * travel ELSE 0)
             y2 == 2 * start.y
                     + (IF back /\ toggle THEN travel ELSE 0)
                     + (IF toggle THEN -travel ELSE 0)
         IN PointAt(x2, y2)
    ELSE IF axis = "x"
    THEN PointAt(2 * start.x + (IF toggle THEN 2 * travel ELSE -2 * travel),
                 2 * start.y)
    ELSE PointAt(2 * start.x,
                 2 * start.y + (IF toggle THEN 2 * travel ELSE -2 * travel))

\* wigglePen, line 847: if (i <= iterations) after i++
WiggleAgain(i, iterations) == i <= iterations

\* wigglePen's _wiggleSlave(toggle) with the counter at i.
RECURSIVE wiggleSlave(_, _, _, _, _, _, _)
wiggleSlave(c, start, axis, travel, iterations, i, toggle) ==
    With(movePenAbs(c, WigglePoint(start, axis, travel, i, toggle), FALSE).c,
         LAMBDA c1 :
           IF WiggleAgain(i + 1, iterations)
           THEN wiggleSlave(c1, start, axis, travel, iterations, i + 1, ~toggle)
           ELSE movePenAbs(c1, PointAt(2 * start.x, 2 * start.y), FALSE).c)

\* control.wigglePen(axis, rawTravel, iterations)
wigglePen(c, axis, travel, iterations) ==
    wiggleSlave(c, [x |-> c.pen.x, y |-> c.pen.y], axis, travel, iterations,
                0, TRUE)

\* setTool, lines 431-483: the change to a tool the configuration has.
\* Callback items: "pause" is the manual swap callback, "done" the caller's.
ToolChange(c, currentToolName, tool, ignoreTimeout) ==
    With(setHeight(c, "up"), LAMBDA c1 :
    With(movePenAbs(c1, PointAt(2 * tool.x, 2 * tool.y), FALSE).c, LAMBDA c2 :
    With(IF tool.wait # "undefined"
         THEN IF tool.wait = "true" THEN run(c2, "callback", "pause") ELSE c2
         ELSE With(setHeight(c2, IF ContainsWater(currentToolName)
                                 THEN "wash" ELSE "draw"), LAMBDA c3 :
              With(wigglePen(c3, tool.wiggleAxis, tool.wiggleTravel,
                             tool.wiggleIterations), LAMBDA c4 :
                setHeight(c4, "up"))), LAMBDA c5 :
      IF ~ignoreTimeout
      THEN [c |-> run(c5, "callback", "done"), ret |-> "true", cb |-> "queued"]
      ELSE [c |-> c5, ret |-> "true", cb |-> "called"])))

\* control.setTool(toolName, callback, ignoreTimeout): the controller state
\* afterwards, what it returned ("TypeError": line 418 threw, destructuring
\* undefined) and what became of the callback.
setTool(c, toolName, ignoreTimeout) ==
    With(Split(toolName), LAMBDA toolNameData :
      IF Len(toolNameData) < 2
      THEN [c |-> c, ret |-> "TypeError", cb |-> "none"]
      ELSE With(CurrentToolName(toolNameData), LAMBDA currentToolName :
             IF currentToolName \notin DOMAIN Tools
             THEN [c |-> run(c, "callback", "done"), ret |-> "false",
                   cb |-> "queued"]
             ELSE ToolChange(c, currentToolName, Tools[currentToolName],
                             ignoreTimeout)))

\* Writes a controller state and the call's outcome back to the variables.
\* ret is the number a call returned, returned what setTool returned.
NoArg == [none |-> TRUE]

CtlCommit(c, op, arg, ret, returned, cb) ==
    /\ pen' = c.pen
    /\ actualPen' = c.actualPen
    /\ bufferData' = c.data
    /\ hostPaused' = c.paused
    /\ result' = [op |-> op, arg |-> arg, ret |-> ret, returned |-> returned,
                  cb |-> cb, sent |-> c.sent, calls |-> c.calls]

\* ------------------------------------------------------------------- Init
Init ==
    /\ simulation = TRUE
    /\ buffer = <<>>
    /\ bufferRunning = FALSE
    /\ bufferPaused = FALSE
    /\ bufferExecuting = FALSE
    /\ bufferDirectBusy = FALSE
    /\ itemExec = NoExec
    /\ directExec = NoExec
    /\ rawWrites = {}
    /\ flushPending = 0
    /\ enqueued = <<>>
    /\ started = <<>>
    /\ done = <<>>
    /\ emitted = <<>>
    /\ emptySent = 0
    /\ itemWrites = [h \in 1..MaxItems |-> <<>>]
    /\ directs = <<>>
    /\ directWrites = [d \in 1..MaxDirect |-> <<>>]
    /\ directDone = {}
    /\ discarded = {}
    /\ nClears = 0
    /\ nRaw = 0
    /\ errors = 0
    /\ pen = PenInit
    /\ actualPen = PenInit
    /\ bufferData = <<>>
    /\ result = [op |-> "none", arg |-> NoArg, ret |-> 0, returned |-> "none",
                 cb |-> "none", sent |-> 0, calls |-> 0]
    /\ nOps = 0
    /\ hostPaused = FALSE

historyVars ==
    <<enqueued, directs, directWrites, directDone, discarded, nClears, nRaw, ctlVars>>

\* ------------------------------------------------- gotMessage: the handlers
\* serial.connect: the SerialPort open callback decides the mode.
Connect ==
    /\ \E ok \in BOOLEAN : simulation' = ~ok
    /\ UNCHANGED <<buffer, bufferRunning, bufferPaused, bufferExecuting,
                   bufferDirectBusy, itemExec, directExec, rawWrites,
                   flushPending, started, done, emitted, emptySent, itemWrites, errors, historyVars>>

\* buffer.add
BufferAdd ==
    /\ Len(enqueued) < MaxItems
    /\ \E cmds \in CmdLists :
         /\ buffer' = BufferUnshift(buffer, [hash |-> Len(enqueued) + 1, commands |-> cmds])
         /\ enqueued' = Append(enqueued, cmds)
    /\ UNCHANGED <<simulation, bufferRunning, bufferPaused, bufferExecuting,
                   bufferDirectBusy, itemExec, directExec, rawWrites,
                   flushPending, started, done, emitted, emptySent, itemWrites, errors,
                   directs, directWrites, directDone, discarded, nClears, nRaw, ctlVars>>

\* buffer.pause
BufferPause ==
    /\ bufferPaused' = TRUE
    /\ UNCHANGED <<simulation, buffer, bufferRunning, bufferExecuting,
                   bufferDirectBusy, itemExec, directExec, rawWrites,
                   flushPending, started, done, emitted, emptySent, itemWrites, errors, historyVars>>

\* buffer.resume
BufferResume ==
    /\ \E thr \in ThrowChoices :
         Commit(executeNext([RunnerState EXCEPT !.bufferPaused = FALSE], simulation, thr))
    /\ UNCHANGED <<simulation, bufferDirectBusy, directExec, rawWrites,
                   flushPending, historyVars>>

\* buffer = [] of buffer.clear.
ClearedKept(buf) == buf

Cleared(buf) == <<>>

\* buffer.clear
BufferClear ==
    /\ nClears < MaxClears
    /\ nClears' = nClears + 1
    /\ discarded' = discarded \cup { buffer[i].hash : i \in 1..Len(buffer) }
    /\ IF simulation
       THEN /\ Commit(executeNext([RunnerState EXCEPT !.buffer = Cleared(buffer)], simulation, FALSE))
            /\ UNCHANGED flushPending
       ELSE /\ Commit([RunnerState EXCEPT !.buffer = Cleared(buffer)])
            /\ flushPending' = flushPending + 1
    /\ UNCHANGED <<simulation, bufferDirectBusy, directExec, rawWrites,
                   enqueued, directs, directWrites, directDone, nRaw, ctlVars>>

\* The port.flush callback of buffer.clear.
ClearFlushed ==
    /\ flushPending > 0
    /\ flushPending' = flushPending - 1
    /\ \E thr \in ThrowChoices : Commit(executeNext(RunnerState, simulation, thr))
    /\ UNCHANGED <<simulation, bufferDirectBusy, directExec, rawWrites, historyVars>>

\* The buffer interval (every 10 ms).
Interval ==
    /\ Len(buffer) > 0 /\ ~bufferRunning /\ ~bufferPaused
    /\ \E thr \in ThrowChoices :
         Commit(executeNext([RunnerState EXCEPT
                               !.bufferRunning = TRUE,
                               !.emitted = Emit(@, "buffer.running true"),
                               !.emptySent = 0],
                            simulation, thr))
    /\ UNCHANGED <<simulation, bufferDirectBusy, directExec, rawWrites,
                   flushPending, historyVars>>
\* if (!bufferDirectBusy) of serial.direct.command.
DirectIdleAlways == TRUE

DirectIdle == ~bufferDirectBusy

\* serial.direct.command: runs the batch unless a direct batch is running.
\* overlap records whether an earlier batch's chain was still there.
DirectCommand ==
    /\ Len(directs) < MaxDirect
    /\ \E cmds \in CmdLists, thr \in ThrowChoices :
         LET id == Len(directs) + 1
             r  == executeCommands(id, cmds, 0, simulation, thr)
         IN IF DirectIdle
            THEN /\ bufferDirectBusy' = TRUE
                 /\ directExec' = r.chain
                 /\ directWrites' = [directWrites EXCEPT ![id] = @ \o r.wrote]
                 /\ errors' = errors + r.errs
                 /\ directs' = Append(directs, [commands |-> cmds, overlap |-> directExec.stage # "idle"])
            ELSE /\ directs' = Append(directs, [commands |-> cmds, overlap |-> directExec.stage # "idle"])
                 /\ UNCHANGED <<bufferDirectBusy, directExec, directWrites, errors>>
    /\ UNCHANGED <<simulation, buffer, bufferRunning, bufferPaused,
                   bufferExecuting, itemExec, rawWrites, flushPending, enqueued,
                   started, done, emitted, emptySent, itemWrites, directDone, discarded, nClears, nRaw, ctlVars>>

\* serial.direct.write: serial.write(data) with no callback.
DirectWrite ==
    /\ nRaw < MaxRaw
    /\ nRaw' = nRaw + 1
    /\ \E thr \in ThrowChoices :
         IF thr
         THEN /\ errors' = errors + 1
              /\ UNCHANGED rawWrites
         ELSE /\ rawWrites' = rawWrites \cup
                    {[id |-> nRaw + 1, stage |-> WriteStage(simulation),
                      timeout |-> WriteTimeoutOf(simulation)]}
              /\ UNCHANGED errors
    /\ UNCHANGED <<simulation, buffer, bufferRunning, bufferPaused,
                   bufferExecuting, bufferDirectBusy, itemExec, directExec,
                   flushPending, enqueued, started, done, emitted, emptySent, itemWrites, directs,
                   directWrites, directDone, discarded, nClears, ctlVars>>

\* ------------------------------------------- serial.write: platform callbacks
\* A write whose completion runs the callback given to serial.write: the
\* 1 ms timer of a simulated write, or the port.flush callback of a real one.
CompletesOnPortOnly(w) == w.stage = "flush"

Completes(w) == w.stage \in {"sim", "flush"}

\* port.write's callback: clearTimeout(writeTimeout), then port.drain.
PortWritten(w) == [w EXCEPT !.stage = "drain", !.timeout = "none"]

\* port.drain's callback: port.flush.
PortDrained(w) == [w EXCEPT !.stage = "flush"]

\* The 500 ms write timeout: console.error and nothing else.
WriteTimedOut(w) == [w EXCEPT !.timeout = "fired"]

\* A step of a real write that does not complete it, for the item chain.
ItemPortStep ==
    /\ \/ itemExec.stage = "write" /\ itemExec' = PortWritten(itemExec)
       \/ itemExec.stage = "drain" /\ itemExec' = PortDrained(itemExec)
    /\ UNCHANGED <<simulation, buffer, bufferRunning, bufferPaused,
                   bufferExecuting, bufferDirectBusy, directExec, rawWrites,
                   flushPending, started, done, emitted, emptySent, itemWrites, errors, historyVars>>

\* The write timeout of the item chain's write fires.
ItemWriteTimeout ==
    /\ itemExec.stage = "write" /\ itemExec.timeout = "armed"
    /\ itemExec' = WriteTimedOut(itemExec)
    /\ UNCHANGED <<simulation, buffer, bufferRunning, bufferPaused,
                   bufferExecuting, bufferDirectBusy, directExec, rawWrites,
                   flushPending, started, done, emitted, emptySent, itemWrites, errors, historyVars>>

\* The write of the item chain completes: the next command is written, or
\* the item's callback is scheduled.
ItemWriteDone ==
    /\ Completes(itemExec)
    /\ \E thr \in ThrowChoices :
         LET r == WriteCallback(itemExec, simulation, thr)
         IN /\ itemExec' = r.chain
            /\ itemWrites' = [itemWrites EXCEPT ![itemExec.id] = @ \o r.wrote]
            /\ errors' = errors + r.errs
    /\ UNCHANGED <<simulation, buffer, bufferRunning, bufferPaused,
                   bufferExecuting, bufferDirectBusy, directExec, rawWrites,
                   flushPending, started, done, emitted, emptySent, historyVars>>

\* The callback executeNext gave executeCommands: buffer.item.done, then
\* executeNext again.
ItemDone ==
    /\ itemExec.stage = "cb0"
    /\ \E thr \in ThrowChoices :
         Commit(executeNext([RunnerState EXCEPT
                               !.done = Append(@, itemExec.id),
                               !.emitted = Emit(@, "buffer.item.done"),
                               !.emptySent = 0,
                               !.bufferExecuting = FALSE,
                               !.itemExec = NoExec], simulation, thr))
    /\ UNCHANGED <<simulation, bufferDirectBusy, directExec, rawWrites,
                   flushPending, historyVars>>

\* The same steps for the chain of the direct batch.
DirectPortStep ==
    /\ \/ directExec.stage = "write" /\ directExec' = PortWritten(directExec)
       \/ directExec.stage = "drain" /\ directExec' = PortDrained(directExec)
    /\ UNCHANGED <<simulation, buffer, bufferRunning, bufferPaused,
                   bufferExecuting, bufferDirectBusy, itemExec, rawWrites,
                   flushPending, started, done, emitted, emptySent, itemWrites, errors, historyVars>>

DirectWriteTimeout ==
    /\ directExec.stage = "write" /\ directExec.timeout = "armed"
    /\ directExec' = WriteTimedOut(directExec)
    /\ UNCHANGED <<simulation, buffer, bufferRunning, bufferPaused,
                   bufferExecuting, bufferDirectBusy, itemExec, rawWrites,
                   flushPending, started, done, emitted, emptySent, itemWrites, errors, historyVars>>

DirectWriteDone ==
    /\ Completes(directExec)
    /\ \E thr \in ThrowChoices :
         LET r == WriteCallback(directExec, simulation, thr)
         IN /\ directExec' = r.chain
            /\ directWrites' = [directWrites EXCEPT ![directExec.id] = @ \o r.wrote]
            /\ errors' = errors + r.errs
    /\ UNCHANGED <<simulation, buffer, bufferRunning, bufferPaused,
                   bufferExecuting, bufferDirectBusy, itemExec, rawWrites,
                   flushPending, enqueued, started, done, emitted, emptySent, itemWrites, directs,
                   directDone, discarded, nClears, nRaw, ctlVars>>

\* The callback of the direct batch: bufferDirectBusy = false.
DirectDone ==
    /\ directExec.stage = "cb0"
    /\ bufferDirectBusy' = FALSE
    /\ directDone' = directDone \cup {directExec.id}
    /\ directExec' = NoExec
    /\ UNCHANGED <<simulation, buffer, bufferRunning, bufferPaused,
                   bufferExecuting, itemExec, rawWrites, flushPending, enqueued,
                   started, done, emitted, emptySent, itemWrites, errors, directs, directWrites,
                   discarded, nClears, nRaw, ctlVars>>

\* The steps of a serial.direct.write write; it has no callback to run.
RawStep ==
    /\ \E w \in rawWrites :
         \/ w.stage = "write" /\ rawWrites' = (rawWrites \ {w}) \cup {PortWritten(w)}
         \/ w.stage = "drain" /\ rawWrites' = (rawWrites \ {w}) \cup {PortDrained(w)}
         \/ w.stage = "write" /\ w.timeout = "armed"
              /\ rawWrites' = (rawWrites \ {w}) \cup {WriteTimedOut(w)}
         \/ Completes(w) /\ rawWrites' = rawWrites \ {w}
    /\ UNCHANGED <<simulation, buffer, bufferRunning, bufferPaused,
                   bufferExecuting, bufferDirectBusy, itemExec, directExec,
                   flushPending, started, done, emitted, emptySent, itemWrites, errors, historyVars>>

\* ------------------------------------------------------------ specification
\* The buffer: buffer.add, pause, resume, clear, the interval and the item's
\* writes, in simulation and on a real port.
Next ==
    \/ Connect
    \/ BufferAdd
    \/ BufferPause
    \/ BufferResume
    \/ BufferClear
    \/ ClearFlushed
    \/ Interval
    \/ ItemPortStep
    \/ ItemWriteTimeout
    \/ ItemWriteDone
    \/ ItemDone

Spec == Init /\ [][Next]_vars

\* The direct path: direct batches and direct writes.
DirectNext ==
    \/ Connect
    \/ DirectCommand
    \/ DirectWrite
    \/ DirectPortStep
    \/ DirectWriteTimeout
    \/ DirectWriteDone
    \/ DirectDone
    \/ RawStep

DirectSpec == Init /\ [][DirectNext]_vars

\* The wire: buffer items, direct batches and direct writes together.
WireNext ==
    \/ Connect
    \/ BufferAdd
    \/ Interval
    \/ ItemPortStep
    \/ ItemWriteTimeout
    \/ ItemWriteDone
    \/ ItemDone
    \/ DirectCommand
    \/ DirectWrite
    \/ DirectPortStep
    \/ DirectWriteTimeout
    \/ DirectWriteDone
    \/ DirectDone
    \/ RawStep

WireSpec == Init /\ [][WireNext]_vars

\* What node guarantees of the buffer's steps: the interval and the timers
\* (the 1 ms timer of a simulated write, setTimeout(callback, 0), the write
\* timeout) fire. The callbacks of port.write, port.drain and port.flush are
\* the platform's: nothing guarantees them.
Fairness ==
    /\ WF_vars(Interval)
    /\ WF_vars(ItemWriteDone /\ itemExec.stage = "sim")
    /\ WF_vars(ItemDone)
    /\ WF_vars(ItemWriteTimeout)

FairSpec == Init /\ [][Next]_vars /\ Fairness

\* The buffer in simulation, with no serial.connect and no buffer.clear.
SimNext ==
    \/ BufferAdd
    \/ BufferPause
    \/ BufferResume
    \/ Interval
    \/ ItemWriteDone
    \/ ItemDone

\* The interval and the timers fire, and the host resumes a paused buffer.
SimFairness ==
    /\ WF_vars(Interval)
    /\ WF_vars(ItemWriteDone /\ itemExec.stage = "sim")
    /\ WF_vars(ItemDone)
    /\ WF_vars(BufferResume /\ bufferPaused)

SimFairSpec == Init /\ [][SimNext]_vars /\ SimFairness

\* ----------------------------------------------- motion control: the calls
\* control.movePenAbs(point, callback, immediate, skip)
MovePenAbs(inPoint, skip) ==
    /\ nOps < MaxOps
    /\ nOps' = nOps + 1
    /\ \E r \in {movePenAbs(CtlState, inPoint, skip)} :
         CtlCommit(r.c, "movePenAbs", [point |-> inPoint, skip |-> skip], r.ret,
                   "number", r.cb)
    /\ UNCHANGED runnerVars

\* control.actuallyMove(destination, callback), called with a point of the
\* maximum area.
ActuallyMove ==
    /\ nOps < MaxOps
    /\ nOps' = nOps + 1
    /\ \E x \in 0..AreaW, y \in 0..AreaH :
         \E c \in {actuallyMove(CtlState, [x |-> x, y |-> y])} :
           CtlCommit(c, "actuallyMove", [x |-> x, y |-> y], 0, "none", "move")
    /\ UNCHANGED runnerVars

\* control.actuallyMoveHeight(height, stateValue, cb)
ActuallyMoveHeight ==
    /\ nOps < MaxOps
    /\ nOps' = nOps + 1
    /\ \E s \in PenStates :
         \E c \in {actuallyMoveHeight(CtlState, stateToHeight(s).height, s)} :
           CtlCommit(c, "actuallyMoveHeight", [state |-> s], 0, "none", "move")
    /\ UNCHANGED runnerVars

\* cncserver.pen.setHeight(state), through the buffer.
SetHeight ==
    /\ nOps < MaxOps
    /\ nOps' = nOps + 1
    /\ \E s \in PenStates :
         \E c \in {setHeight(CtlState, s)} : CtlCommit(c, "setHeight", [state |-> s], 0, "none", "none")
    /\ UNCHANGED runnerVars

\* The runner reports the start of the oldest queued item.
BufferItemStart ==
    /\ Len(bufferData) > 0
    /\ ~hostPaused
    /\ \E c \in {startItem(CtlState)} : CtlCommit(c, "startItem", NoArg, 0, "none", "none")
    /\ UNCHANGED <<nOps, runnerVars>>

\* control.setTool(toolName, callback, ignoreTimeout)
SetTool ==
    /\ nOps < MaxOps
    /\ nOps' = nOps + 1
    /\ \E toolName \in ToolNames, ignoreTimeout \in BOOLEAN :
         \E r \in {setTool(CtlState, toolName, ignoreTimeout)} :
           CtlCommit(r.c, "setTool",
                     [toolName |-> toolName, ignoreTimeout |-> ignoreTimeout],
                     0, r.ret, r.cb)
    /\ UNCHANGED runnerVars

\* control.wigglePen(axis, rawTravel, iterations)
WigglePen ==
    /\ nOps < MaxOps
    /\ nOps' = nOps + 1
    /\ \E axis \in {"xy", "x", "y"}, travel \in 1..MaxTravel,
          iterations \in 0..MaxIterations :
         \E c \in {wigglePen(CtlState, axis, travel, iterations)} :
           CtlCommit(c, "wigglePen",
                     [axis |-> axis, travel |-> travel, iterations |-> iterations],
                     0, "none", "none")
    /\ UNCHANGED runnerVars

\* The user confirms the manual tool swap: the buffer is resumed.
ManualSwapResume ==
    /\ hostPaused
    /\ hostPaused' = FALSE
    /\ result' = [op |-> "resume", arg |-> NoArg, ret |-> 0, returned |-> "none",
                  cb |-> "none", sent |-> 0, calls |-> 0]
    /\ UNCHANGED <<pen, actualPen, bufferData, nOps, runnerVars>>

\* control.offCanvasChange(newValue)
OffCanvasChange ==
    /\ nOps < MaxOps
    /\ nOps' = nOps + 1
    /\ \E newValue \in BOOLEAN :
         \E c \in {offCanvasChange(CtlState, newValue)} :
           CtlCommit(c, "offCanvasChange", [newValue |-> newValue], 0, "none", "none")
    /\ UNCHANGED runnerVars

CtlNext ==
    \/ \E inPoint \in InPoints, skip \in BOOLEAN : MovePenAbs(inPoint, skip)
    \/ ActuallyMove
    \/ ActuallyMoveHeight
    \/ SetHeight
    \/ BufferItemStart

CtlSpec == Init /\ [][CtlNext]_vars

\* The boundary events on their own, between moves, height changes and
\* the start of queued items.
CanvasNext ==
    \/ OffCanvasChange
    \/ \E inPoint \in InPoints, skip \in BOOLEAN : MovePenAbs(inPoint, skip)
    \/ SetHeight
    \/ BufferItemStart

CanvasSpec == Init /\ [][CanvasNext]_vars

ToolNext ==
    \/ SetTool
    \/ WigglePen
    \/ BufferItemStart
    \/ ManualSwapResume

ToolSpec == Init /\ [][ToolNext]_vars

\* ------------------------------------------------------------------ claims
Hashes == 1..MaxItems

\* Writes on the wire: handed to serial.write and not yet completed.
OnWire(c) == c.stage \in {"sim", "write", "drain", "flush"}

InFlight ==
    (IF OnWire(itemExec) THEN 1 ELSE 0) + (IF OnWire(directExec) THEN 1 ELSE 0)
    + Cardinality(rawWrites)

\* C1: with no buffer.clear received, the buffer.item.start messages name
\* the items in exactly the order of their buffer.add messages (hashes are
\* numbered in that order), whatever ticks, pauses and resumes occurred.
C1_Fifo == nClears = 0 => started = [i \in 1..Len(started) |-> i]

C1_Witness ==
    /\ nClears = 0
    /\ Len(started) = 2
    /\ Len(enqueued) >= 2
    /\ Len(enqueued[1]) > 0

\* C2: at most one serial write is in flight at any moment, over buffer
\* items, direct batches and direct writes.
C2_WireExclusive == InFlight <= 1

\* C3: a serial.direct.command that arrives while an earlier direct batch
\* has not completed changes nothing and sends no serial.error when it
\* arrives, and none of its commands is ever written nor does it complete.
C3_SecondDirectDropped ==
    /\ [][(Len(directs') = Len(directs) + 1 /\ directExec.stage # "idle")
            => /\ directExec' = directExec
               /\ directWrites' = directWrites
               /\ directDone' = directDone
               /\ errors' = errors]_vars
    /\ [](\A d \in 1..Len(directs) :
            directs[d].overlap => directWrites[d] = <<>> /\ d \notin directDone)

C3_Witness ==
    /\ Len(directs) = 2
    /\ directs[2].overlap
    /\ directDone = {1}
    /\ Len(directWrites[1]) = MaxCmds

\* How far an executing chain has got: its index, then the stage of its
\* write (the final setTimeout(callback, 0) has index = commands.length).
Measure(c) ==
    4 * c.index + (CASE c.stage = "drain" -> 1 [] c.stage = "flush" -> 2 [] OTHER -> 0)

\* A step that changes the executing item's chain moves it forward, or ends
\* it with buffer.item.done after all its commands were written in order.
ChainOnlyAdvances ==
    (itemExec.stage # "idle" /\ itemExec' # itemExec) =>
        \/ /\ itemExec'.id = itemExec.id
           /\ itemExec'.commands = itemExec.commands
           /\ Measure(itemExec') >= Measure(itemExec)
        \/ /\ itemExec.stage = "cb0"
           /\ Len(done') > Len(done)
           /\ SubSeq(done', 1, Len(done) + 1) = Append(done, itemExec.id)
           /\ itemWrites[itemExec.id] = enqueued[itemExec.id]

\* Nothing but the awaited callback is needed for the chain's next step:
\* the timer of a simulated write, the port's callbacks and the final
\* setTimeout(callback, 0) each find their step enabled.
ChainNotBlocked ==
    /\ itemExec.stage \in {"sim", "flush"} => ENABLED ItemWriteDone
    /\ itemExec.stage \in {"write", "drain"} => ENABLED ItemPortStep
    /\ itemExec.stage = "cb0" => ENABLED ItemDone

\* C4: pause does not preempt and does block. The step that sets
\* bufferPaused leaves the executing item's chain and writes as they are;
\* while paused the chain is still free to take its next step, only moves
\* forward and ends with buffer.item.done after all the item's commands were
\* written; and no buffer.item.start is sent while paused (a start happens
\* only in a step that ends unpaused, i.e. not before buffer.resume).
C4_PauseNonPreemptive ==
    /\ [][(bufferPaused' /\ ~bufferPaused)
            => (itemExec' = itemExec /\ itemWrites' = itemWrites /\ done' = done)]_vars
    /\ [](bufferPaused => ChainNotBlocked)
    /\ [][bufferPaused => ChainOnlyAdvances]_vars
    /\ [][started' # started => ~bufferPaused']_vars

\* The first item, with MaxCmds commands, was executing when the pause came
\* (bufferRunning is still set with no item executing, which only a done
\* callback that found the buffer paused leaves behind): it is done with all
\* its commands written, and the next item still waits in the buffer.
C4_Witness ==
    /\ bufferPaused
    /\ bufferRunning
    /\ itemExec.stage = "idle"
    /\ Len(buffer) > 0
    /\ done = <<1>>
    /\ started = <<1>>
    /\ Len(itemWrites[1]) = MaxCmds

\* C5: an item that was in the buffer at a buffer.clear is never started;
\* the clear step leaves the executing item's chain and writes as they are,
\* and after it the chain is still free to take its next step, only moves
\* forward and ends with buffer.item.done after all the item's commands were
\* written.
C5_ClearDiscardsQueued ==
    /\ [](discarded \cap RangeOf(started) = {})
    /\ [][nClears' # nClears
            => \/ itemExec' = itemExec /\ itemWrites' = itemWrites /\ done' = done
               \/ itemExec.stage = "idle"]_vars
    /\ [](nClears > 0 => ChainNotBlocked)
    /\ [][nClears > 0 => ChainOnlyAdvances]_vars

\* The clear came while item 1 was executing (item 2 was discarded and
\* item 1 was not, so it had left the buffer): item 1 went on, all its
\* MaxCmds commands are written and its callback is scheduled.
C5_Witness ==
    /\ nClears > 0
    /\ 2 \in discarded
    /\ 1 \notin discarded
    /\ itemExec.id = 1
    /\ itemExec.stage = "cb0"
    /\ itemWrites[1] = enqueued[1]
    /\ Len(enqueued[1]) = MaxCmds

\* C6: on a real port no item starts between a buffer.clear and the
\* callback of its port.flush: a step that sends buffer.item.start leaves
\* no flush pending.
C6_NoStartBeforeFlush == [][started' # started => flushPending' = 0]_vars

\* C7: once the write timeout of an item's write has fired, the item still
\* gets to buffer.item.done, or else the callback of port.write fires after
\* all (the claim is about the callback never firing).
C7_TimeoutUnblocks ==
    \A h \in Hashes :
      (itemExec.id = h /\ itemExec.stage = "write" /\ itemExec.timeout = "fired")
         ~> (h \in RangeOf(done) \/ ~(itemExec.id = h /\ itemExec.stage = "write"))

\* The whole step nearest to a coordinate given in half steps; a half goes
\* to the step above.
NearestStep(v2) ==
    CHOOSE n \in -2..(AreaW + AreaH + 2) : 2 * n - 1 <= v2 /\ v2 < 2 * n + 1

Within(v, lo, hi) == IF v < lo THEN lo ELSE IF v > hi THEN hi ELSE v

\* The destination of a requested point: rounded, brought into the work
\* area when the point asks for it, and into the maximum area.
Destination(p) ==
    LET x == NearestStep(NumberOf(p.xn, p.x2))
        y == NearestStep(NumberOf(p.yn, p.y2))
        lx == IF p.limit = "workArea" THEN Within(x, WorkLeft, AreaW) ELSE x
        ly == IF p.limit = "workArea" THEN Within(y, WorkTop, AreaH) ELSE y
    IN [x |-> Within(lx, 0, AreaW), y |-> Within(ly, 0, AreaH)]

\* The requested point, rounded, lies inside the work area rectangle.
InsideWorkArea(p) ==
    /\ NearestStep(NumberOf(p.xn, p.x2)) >= WorkLeft
    /\ NearestStep(NumberOf(p.xn, p.x2)) <= AreaW
    /\ NearestStep(NumberOf(p.yn, p.y2)) >= WorkTop
    /\ NearestStep(NumberOf(p.yn, p.y2)) <= AreaH

\* The requested point asks for the work area limit and lies inside it: the
\* call fires the entry event before it queues the move.
FiresEntry(p) == p.limit = "workArea" /\ InsideWorkArea(p)

Finite(p) == p.xn = "finite" /\ p.yn = "finite"

\* The step is a movePenAbs call; result' then holds its arguments.
IsMovePenAbs == nOps' # nOps /\ result'.op = "movePenAbs"

\* C8: every moveAbsolute call with finite coordinates that does not skip
\* the queue returns with the buffered pen at the rounded, clamped
\* destination, whatever the actual pen and the queue are; and the start of
\* a queued item by the runner leaves the buffered position where it is.
C8_BufferedAtDestination ==
    /\ [][(IsMovePenAbs /\ ~result'.arg.skip /\ Finite(result'.arg.point)) =>
            /\ pen'.x = Destination(result'.arg.point).x
            /\ pen'.y = Destination(result'.arg.point).y]_vars
    /\ [][BufferItemStart => (pen'.x = pen.x /\ pen'.y = pen.y)]_vars

\* A move has returned a distance, its item is still queued, and the actual
\* pen is somewhere else than the buffered pen.
C8_Witness ==
    /\ result.op = "movePenAbs"
    /\ result.ret > 0
    /\ Len(bufferData) > 0
    /\ bufferData[Len(bufferData)].type = "move"
    /\ pen.x # actualPen.x
    /\ pen.x = AreaW

\* C9: whenever the queue is empty, after any sequence of queued moves,
\* actuallyMove, actuallyMoveHeight and item starts, the buffered pen state
\* equals the actual pen state.
C9_Resync == Len(bufferData) = 0 => pen = actualPen

\* C10: across a moveAbsolute call the buffered distanceCounter either stays
\* or grows by the distance the call returns, and it stays unless, when the
\* move is queued (after the entry event of the call, if it fires one), the
\* pen is down, the buffered pen is not off canvas and the destination is
\* inside the work area.
C10_DistanceCounter ==
    [][IsMovePenAbs =>
         /\ pen'.distanceCounter
                \in {pen.distanceCounter, pen.distanceCounter + result'.ret}
         /\ ~(/\ pen.state # "up"
              /\ FiresEntry(result'.arg.point) \/ ~pen.offCanvas
              /\ Destination(result'.arg.point).x >= WorkLeft) =>
                pen'.distanceCounter = pen.distanceCounter]_vars

\* A drawn move left the work area (the raise is queued), and the next move
\* came back in: its height change is queued before it and it was counted.
C10_Witness ==
    \E i \in 2..(Len(bufferData) - 1) :
        /\ bufferData[i - 1].type = "callback"
        /\ bufferData[i].type = "height"
        /\ bufferData[i + 1].type = "move"
        /\ bufferData[i + 1].pen.distanceCounter > bufferData[i].pen.distanceCounter
        /\ ~pen.offCanvas

\* C11: a moveAbsolute call with a non-finite x or y returns 0, calls the
\* callback with a falsy result, queues no item, sends no command and leaves
\* the buffered and the actual pen as they were.
C11_RejectsNonFinite ==
    [][(IsMovePenAbs /\ ~Finite(result'.arg.point)) =>
         /\ result'.ret = 0
         /\ result'.cb = "false"
         /\ result'.sent = 0
         /\ bufferData' = bufferData
         /\ pen' = pen
         /\ actualPen' = actualPen]_vars

\* C12: a moveAbsolute call (not skipping the queue) with limit = workArea
\* whose requested point lies outside the work area returns with the
\* buffered pen clamped into the work area and buffered offCanvas true; the
\* move it queued was queued before the exit event (it carries the offCanvas
\* value of before the call).
C12_BoundaryExit ==
    [][(/\ IsMovePenAbs
        /\ ~result'.arg.skip
        /\ Finite(result'.arg.point)
        /\ result'.arg.point.limit = "workArea"
        /\ ~InsideWorkArea(result'.arg.point)) =>
         /\ pen'.x = Destination(result'.arg.point).x
         /\ pen'.y = Destination(result'.arg.point).y
         /\ pen'.offCanvas
         /\ Len(bufferData') > Len(bufferData) =>
              /\ bufferData'[Len(bufferData) + 1].type = "move"
              /\ bufferData'[Len(bufferData) + 1].pen.offCanvas = pen.offCanvas]_vars

\* The items the step appended to cncserver.buffer.data.
Added == SubSeq(bufferData', Len(bufferData) + 1, Len(bufferData'))

\* The call asks for the point the buffered pen is at (state before the call).
ZeroChange ==
    /\ IsMovePenAbs
    /\ ~result'.arg.skip
    /\ Finite(result'.arg.point)
    /\ Destination(result'.arg.point) = [x |-> pen.x, y |-> pen.y]

\* The call brings a pen that is off the canvas back onto it.
ReEnters == FiresEntry(result'.arg.point) /\ pen.offCanvas

\* C17 as stated: a moveAbsolute call that does not skip the queue and whose
\* rounded destination is the buffered position returns 0, calls the
\* callback with the buffered state before it returns, queues no item and
\* leaves the buffered pen as it was.
C17_Original ==
    [][ZeroChange =>
         /\ result'.ret = 0
         /\ result'.cb = "state"
         /\ bufferData' = bufferData
         /\ pen' = pen]_vars

\* C17, amended: the same holds of every such call that does not bring the
\* pen back onto the canvas; a call that does (limit workArea, point inside,
\* buffered pen off the canvas) runs the entry event first, so offCanvas
\* becomes false, and then returns 0, calls the callback with the buffered
\* state, queues no move and leaves the buffered position as it was.
C17_Idempotent ==
    [][ZeroChange =>
         /\ result'.ret = 0
         /\ result'.cb = "state"
         /\ pen'.x = pen.x
         /\ pen'.y = pen.y
         /\ \A i \in 1..Len(Added) : Added[i].type # "move"
         /\ IF ReEnters
            THEN ~pen'.offCanvas
            ELSE bufferData' = bufferData /\ pen' = pen]_vars

\* A second call for the point an earlier move brought the buffered pen to
\* has returned 0 and called the callback with the buffered state.
C17_Witness ==
    /\ result.op = "movePenAbs"
    /\ ~result.arg.skip
    /\ Finite(result.arg.point)
    /\ result.ret = 0
    /\ result.cb = "state"
    /\ Destination(result.arg.point) = [x |-> pen.x, y |-> pen.y]
    /\ pen.x # PenInit.x
    /\ Len(bufferData) > 0

\* The step is a setTool call; result' then holds its arguments.
IsSetTool == nOps' # nOps /\ result'.op = "setTool"

\* A tool name carries a virtual index: it contains a '|'.
HasIndex(toolName) == \E i \in 1..Len(toolName) : toolName[i] = "|"

\* The tool a tool name names: the part before the first '|'.
ToolPart(toolName) ==
    IF HasIndex(toolName)
    THEN SubSeq(toolName, 1,
                (CHOOSE k \in 1..Len(toolName) :
                    toolName[k] = "|" /\ \A j \in 1..(k - 1) : toolName[j] # "|") - 1)
    ELSE toolName

IsHeightItem(item) == item.type = "height"

IsDoneCallback(item) == item.type = "callback" /\ item.arg = "done"

\* C13: setTool with a name "<tool>|<virtualIndex>" whose tool is configured
\* with wait = true queues, in order, pen up, the move to the tool and the
\* callback that pauses the buffer; and while the buffer is paused no queued
\* item starts.
C13_ManualToolChange ==
    /\ [][(/\ IsSetTool
           /\ HasIndex(result'.arg.toolName)
           /\ ToolPart(result'.arg.toolName) \in DOMAIN Tools
           /\ Tools[ToolPart(result'.arg.toolName)].wait = "true") =>
            \E k \in 2..Len(Added) :
                /\ Added[1].type = "height"
                /\ Added[1].arg.state = "up"
                /\ \A j \in 2..(k - 1) : Added[j].type = "move"
                /\ Added[k].type = "callback"
                /\ Added[k].arg = "pause"]_vars
    /\ [](hostPaused => ~ENABLED BufferItemStart)

\* C14: setTool with a name whose tool is not configured returns false, has
\* its callback invoked once (at most one callback item is queued for it),
\* and queues or sends no height change and no move.
C14_UnknownTool ==
    [][(IsSetTool /\ ToolPart(result'.arg.toolName) \notin DOMAIN Tools) =>
         /\ result'.returned = "false"
         /\ result'.cb \in {"queued", "called"}
         /\ Len(Added) <= 1
         /\ \A i \in 1..Len(Added) : IsDoneCallback(Added[i])
         /\ result'.sent = 0
         /\ pen' = pen]_vars

\* C15: wigglePen(axis, travel, iterations) calls moveAbsolute iterations
\* times for the half-cycles and once more for the way back, and leaves the
\* buffered position where it started.
C15_WiggleCount ==
    [][(nOps' # nOps /\ result'.op = "wigglePen") =>
         /\ result'.calls = result'.arg.iterations + 1
         /\ pen'.x = pen.x
         /\ pen'.y = pen.y]_vars

\* C16: setTool with a name whose tool is configured invokes the callback
\* once: without ignoreQueueTiming it is the last item the call queues, and
\* with ignoreQueueTiming it is called before the call returns and not
\* queued.
C16_CallbackOnce ==
    [][(IsSetTool /\ ToolPart(result'.arg.toolName) \in DOMAIN Tools) =>
         IF result'.arg.ignoreTimeout
         THEN /\ result'.cb = "called"
              /\ \A i \in 1..Len(Added) : ~IsDoneCallback(Added[i])
         ELSE /\ result'.cb = "queued"
              /\ Len(Added) >= 1
              /\ \A i \in 1..Len(Added) : IsDoneCallback(Added[i]) <=> i = Len(Added)]_vars

\* C20: setTool with a name whose tool is configured and is no wait tool
\* queues pen up first, and its height changes are, in order, up, down (wash
\* for a water tool, draw otherwise) and up, with the move to the tool
\* before the pen goes down and the wiggle moves before it goes up again.
C20_AutomaticToolChange ==
    [][(/\ IsSetTool
        /\ ToolPart(result'.arg.toolName) \in DOMAIN Tools
        /\ Tools[ToolPart(result'.arg.toolName)].wait \in {"undefined", "false"}) =>
         LET heights == SelectSeq(Added, IsHeightItem)
             down == IF ContainsWater(ToolPart(result'.arg.toolName))
                     THEN "wash" ELSE "draw"
         IN /\ Len(Added) >= 1
            /\ Added[1].type = "height"
            /\ [i \in 1..Len(heights) |-> heights[i].arg.state]
                   = <<"up", down, "up">>
            /\ \E i \in 1..Len(Added) :
                   /\ Added[i].type = "height"
                   /\ Added[i].arg.state = down
                   /\ \E j \in (i + 1)..Len(Added) : Added[j].type = "move"]_vars

\* s is the beginning of t.
IsPrefix(s, t) == Len(s) <= Len(t) /\ SubSeq(t, 1, Len(s)) = s

\* The item chain has a write handed to serial.write that has not completed.
ItemWriting == itemExec.stage \in {"sim", "write", "drain", "flush"}

\* C18: the commands of a buffer item are written in array order, one at a
\* time: what was written of an item is the beginning of its command array,
\* while a write of the item is under way exactly the commands before it
\* have completed, a further command is written only when the item starts
\* or when the item's previous write completes, and buffer.item.done is
\* sent only once the last command has completed.
C18_CommandsInOrder ==
    /\ [](\A h \in 1..Len(enqueued) :
            /\ IsPrefix(itemWrites[h], enqueued[h])
            /\ (itemExec.id = h /\ ItemWriting) =>
                   Len(itemWrites[h]) = itemExec.index + 1
            /\ h \in RangeOf(done) => itemWrites[h] = enqueued[h])
    /\ [][\A h \in 1..Len(enqueued) :
            /\ Len(itemWrites'[h]) > Len(itemWrites[h]) =>
                  \/ itemWrites[h] = <<>> /\ h \notin RangeOf(started)
                        /\ h \in RangeOf(started')
                  \/ itemExec.id = h /\ Completes(itemExec)
            /\ (h \in RangeOf(done') /\ h \notin RangeOf(done)
                   /\ enqueued[h] # <<>>) =>
                  /\ itemExec.id = h
                  /\ itemExec.stage = "cb0"
                  /\ itemExec.index = Len(enqueued[h])]_vars

\* An item with the most commands has had them all written, the second
\* after the first completed, and is done.
C18_Witness ==
    \E h \in RangeOf(done) :
        /\ Len(enqueued[h]) = MaxCmds
        /\ itemWrites[h] = enqueued[h]
        /\ errors = 0

\* buffer.empty and then buffer.running false are the last messages sent.
ReportedEmpty == emitted = <<"buffer.empty", "buffer.running false">>

\* C19: in simulation, with no buffer.clear, every pause followed by a
\* resume and the interval and the timers firing, every item added is
\* started and later done, and once all n items added so far are done,
\* buffer.empty followed by buffer.running false is sent (unless a further
\* item is added first, which is then run in turn).
C19_SimProgress ==
    /\ \A h \in 1..MaxItems :
          /\ (Len(enqueued) >= h) ~> (h \in RangeOf(started))
          /\ (h \in RangeOf(started)) ~> (h \in RangeOf(done))
          /\ [](h \in RangeOf(done) => h \in RangeOf(started))
    /\ \A n \in 1..MaxItems :
          (Len(enqueued) = n /\ Len(done) = n) ~>
              \/ Len(done) = n /\ ReportedEmpty
              \/ Len(enqueued) > n

\* Every item the model allows was added, one of them with the most
\* commands, the buffer was paused on the way, all are done and the empty
\* buffer was reported.
C19_Witness ==
    /\ simulation
    /\ nClears = 0
    /\ Len(enqueued) = MaxItems
    /\ Len(done) = MaxItems
    /\ \E h \in 1..MaxItems : Len(enqueued[h]) = MaxCmds
    /\ ReportedEmpty
    /\ ~bufferPaused /\ ~bufferRunning /\ ~bufferExecuting

\* The step is an offCanvasChange call; result' then holds its argument.
IsOffCanvasChange == nOps' # nOps /\ result'.op = "offCanvasChange"

\* C21: offCanvasChange with the value the buffered pen already has changes
\* nothing; offCanvasChange(true) sets the flag, leaves the state label and,
\* with the pen down, queues the raising callback; offCanvasChange(false)
\* clears the flag and queues the height change back to the label the pen
\* had, which it keeps; so an exit followed by a re-entry leaves the label
\* as it was before the exit.
C21_OffCanvasRoundTrip ==
    /\ [][IsOffCanvasChange =>
            IF result'.arg.newValue = pen.offCanvas
            THEN pen' = pen /\ bufferData' = bufferData /\ actualPen' = actualPen
            ELSE IF result'.arg.newValue
            THEN /\ pen' = [pen EXCEPT !.offCanvas = TRUE]
                 /\ IF pen.state # "up"
                    THEN /\ Len(Added) = 1
                         /\ Added[1].type = "callback"
                         /\ Added[1].arg = "raise"
                         /\ Added[1].pen.state = pen.state
                    ELSE Added = <<>>
            ELSE /\ ~pen'.offCanvas
                 /\ pen'.state = pen.state
                 /\ Len(Added) = 1
                 /\ Added[1].type = "height"
                 /\ Added[1].arg.state = pen.state
                 /\ Added[1].pen.state = pen.state]_vars
    /\ [](~pen.offCanvas =>
            LET out  == offCanvasChange(CtlState, TRUE)
                back == offCanvasChange(out, FALSE)
            IN /\ out.pen.state = pen.state
               /\ out.pen.offCanvas
               /\ back.pen.state = pen.state
               /\ ~back.pen.offCanvas)

\* A pen that was down left the canvas and came back: the raising callback
\* and then the height change back to draw are queued, and the label is draw.
C21_Witness ==
    /\ result.op = "offCanvasChange"
    /\ ~result.arg.newValue
    /\ ~pen.offCanvas
    /\ pen.state = "draw"
    /\ \E i \in 1..(Len(bufferData) - 1) :
          /\ bufferData[i].type = "callback"
          /\ bufferData[i].arg = "raise"
          /\ bufferData[i + 1].type = "height"
          /\ bufferData[i + 1].arg.state = "draw"

\* C22: a moveAbsolute call that skips the queue sends exactly one direct
\* move command, returns 0, queues no item and leaves the buffered distance
\* counter alone, whatever the (finite) point, its limit and the buffered
\* offCanvas flag.
C22_SkipQueueFrame ==
    [][(IsMovePenAbs /\ result'.arg.skip /\ Finite(result'.arg.point)) =>
         /\ result'.sent = 1
         /\ result'.ret = 0
         /\ bufferData' = bufferData
         /\ pen'.distanceCounter = pen.distanceCounter]_vars

\* C22 without the queue: what does hold of every such call.
C22_SkipQueueSends ==
    [][(IsMovePenAbs /\ result'.arg.skip /\ Finite(result'.arg.point)) =>
         /\ result'.sent = 1
         /\ result'.ret = 0
         /\ pen'.distanceCounter = pen.distanceCounter
         /\ \A k \in 1..Len(Added) : Added[k].type = "height"
         /\ (~ReEnters => bufferData' = bufferData)]_vars

\* C23: a moveAbsolute call with limit workArea for a point inside the work
\* area, made while the buffered pen is off the canvas, clears offCanvas and
\* queues the height change that restores the pen state first, and the
\* move, if the call queues one, after it.
C23_EntryBeforeMove ==
    [][(IsMovePenAbs /\ ~result'.arg.skip /\ Finite(result'.arg.point)
          /\ ReEnters) =>
         /\ ~pen'.offCanvas
         /\ pen'.state = pen.state
         /\ Len(Added) >= 1
         /\ Added[1].type = "height"
         /\ Added[1].arg.state = pen.state
         /\ ~Added[1].pen.offCanvas
         /\ \A k \in 2..Len(Added) :
               /\ k = 2
               /\ Added[k].type = "move"
               /\ ~Added[k].pen.offCanvas
         /\ (result'.ret > 0 <=> Len(Added) = 2)]_vars

\* Two calls so far: a move that left the work area, and a move back into
\* it whose height change stands before it in the queue.
C23_Witness ==
    /\ nOps = 2
    /\ result.op = "movePenAbs"
    /\ ~result.arg.skip
    /\ FiresEntry(result.arg.point)
    /\ result.ret > 0
    /\ ~pen.offCanvas
    /\ Len(bufferData) = 3
    /\ bufferData[1].type = "move"
    /\ bufferData[2].type = "height"
    /\ bufferData[3].type = "move"

\* C24: the runner has at most one buffer item under way and repeats none:
\* the buffer.item.done messages are the buffer.item.start messages in the
\* same order, short of at most the one item under way, no hash is started
\* twice, a chain of writes exists only while bufferExecuting is set, and a
\* started item either gets done or is waiting for the port's callbacks.
C24_OneItemAtATime ==
    /\ [](/\ Len(started) - Len(done) \in {0, 1}
          /\ done = SubSeq(started, 1, Len(done))
          /\ \A i, j \in 1..Len(started) : started[i] = started[j] => i = j
          /\ \A i \in 1..Len(started) : started[i] \in 1..Len(enqueued)
          /\ (Len(started) > Len(done)) <=> bufferExecuting
          /\ itemExec.stage # "idle" =>
                /\ bufferExecuting
                /\ itemExec.id = started[Len(started)])
    /\ \A h \in 1..MaxItems :
          (h \in RangeOf(started)) ~>
              \/ h \in RangeOf(done)
              \/ itemExec.id = h /\ itemExec.stage \in {"write", "drain", "flush"}

\* The second item is under way after the first was done, and the buffer
\* was paused and cleared meanwhile.
C24_Witness ==
    /\ started = <<1, 2>>
    /\ done = <<1>>
    /\ bufferExecuting
    /\ bufferPaused
    /\ nClears > 0

\* C25: the running state the host was told is right: while an item is under
\* way bufferRunning is set (bufferRunning is the value of the last
\* buffer.running message), so every buffer.item.start follows a
\* buffer.running true, also when resume or clear started the item.
C25_RunningAccurate == bufferExecuting => bufferRunning

\* C26: buffer.empty (with buffer.running false) is sent only at the end of
\* a run: between two buffer.empty messages there is a buffer.item.done or
\* a buffer.running true, so a resume or a clear that finds the runner idle
\* with an empty buffer sends none.
C26_EmptyOnlyAtRunEnd == emptySent <= 1

\* C27: of every batch the runner executes, a buffer item or a direct
\* batch, as many commands are handed to serial.write as the batch has, never
\* more while it runs and exactly as many once it is done; a batch without
\* commands causes no write.
C27_WritesMatchCommands ==
    /\ \A h \in 1..Len(enqueued) :
          /\ Len(itemWrites[h]) <= Len(enqueued[h])
          /\ h \in RangeOf(done) => Len(itemWrites[h]) = Len(enqueued[h])
    /\ \A d \in 1..Len(directs) :
          /\ Len(directWrites[d]) <= Len(directs[d].commands)
          /\ d \in directDone => Len(directWrites[d]) = Len(directs[d].commands)

====
